---- MODULE Spec2Model ----
(***************************************************************************)
(* Payment verification and entitlement granting of the tarot video        *)
(* storefront: BaseService (chain verification), GolemDBService (the       *)
(* append-only tagged store), PurchaseController and AdminController.      *)
(***************************************************************************)
EXTENDS Integers, Sequences, FiniteSets, TLC

NULL == [null |-> TRUE]

(***************************************************************************)
(* Decimal strings.  A digit string is a tuple of digits, most significant *)
(* first; a decimal string "12.50" is [int |-> <<1,2>>, frac |-> <<5,0>>]  *)
(* and "12" is [int |-> <<1,2>>, frac |-> <<>>].  Raw token amounts        *)
(* (bigint in the code) are digit strings too.                             *)
(***************************************************************************)
Zeros(n) == [i \in 1..n |-> 0]

\* the least and the greatest member of a non-empty set of numbers
Least(S)    == CHOOSE i \in S : \A j \in S : i <= j
Greatest(S) == CHOOSE i \in S : \A j \in S : i >= j

\* without leading zeros, keeping one digit
StripLeading(d) ==
    LET nz == {i \in 1..Len(d) : d[i] # 0}
    IN  IF nz = {} THEN <<0>> ELSE SubSeq(d, Least(nz), Len(d))

\* without trailing zeros, keeping one digit
StripTrailing(d) ==
    LET nz == {i \in 1..Len(d) : d[i] # 0}
    IN  IF nz = {} THEN <<0>>
        ELSE SubSeq(d, 1, Greatest(nz))

\* -1, 0, 1 as the natural number a is below, equal to, above b
CmpDigits(a, b) ==
    LET x    == StripLeading(a)
        y    == StripLeading(b)
        diff == {i \in 1..Len(x) : x[i] # y[i]}
    IN  IF Len(x) < Len(y) THEN -1
        ELSE IF Len(x) > Len(y) THEN 1
        ELSE IF diff = {} THEN 0
        ELSE IF x[Least(diff)] < y[Least(diff)] THEN -1 ELSE 1

\* 2 * d: the carry into a digit is 1 exactly when the digit after it is >= 5
DoubleDigits(d) ==
    LET low == [i \in 1..Len(d) |->
                  (2 * d[i] + (IF i < Len(d) /\ d[i + 1] >= 5 THEN 1 ELSE 0)) % 10]
    IN  IF d[1] >= 5 THEN <<1>> \o low ELSE low

\* d + 1
IncDigits(d) ==
    LET n9 == {i \in 1..Len(d) : d[i] # 9}
    IN  IF n9 = {} THEN <<1>> \o Zeros(Len(d))
        ELSE [i \in 1..Len(d) |->
                IF i < Greatest(n9) THEN d[i]
                ELSE IF i = Greatest(n9) THEN d[i] + 1 ELSE 0]

Digits == Seq(0..9)

\* d * 2^n for the powers of two that make up a shift
D1[d \in Digits]  == DoubleDigits(d)
D2[d \in Digits]  == D1[D1[d]]
D4[d \in Digits]  == D2[D2[d]]
D8[d \in Digits]  == D4[D4[d]]
D16[d \in Digits] == D8[D8[d]]
D32[d \in Digits] == D16[D16[d]]
D64[d \in Digits] == D32[D32[d]]

IsZeroDigits(d) == \A i \in 1..Len(d) : d[i] = 0

(***************************************************************************)
(* ethers.formatUnits(value, decimals): the exact decimal string of        *)
(* value / 10^decimals, with at least one integer and one fraction digit   *)
(* and no other leading or trailing zeros ("5.0", "4.99", "0.000001").     *)
(***************************************************************************)
FormatUnits(value, decimals) ==
    LET v      == StripLeading(value)
        padded == IF Len(v) > decimals THEN v
                  ELSE Zeros(decimals + 1 - Len(v)) \o v
        cut    == Len(padded) - decimals
        ip     == SubSeq(padded, 1, cut)
        fp     == SubSeq(padded, cut + 1, Len(padded))
    IN  [int  |-> StripLeading(ip),
         frac |-> IF fp = <<>> THEN <<0>> ELSE StripTrailing(fp)]

EtherDecimals == 18

FormatEther(value) == FormatUnits(value, EtherDecimals)

(***************************************************************************)
(* parseFloat on a decimal string: the IEEE-754 double nearest to the      *)
(* decimal value, ties to even.  A non-zero double is [m, k] with          *)
(* 2^52 <= m < 2^53 and value m * 2^(-k).  Amounts stay below 2^53, so    *)
(* the decimal is only ever scaled up.                                     *)
(***************************************************************************)
MantLo == D32[D16[D4[<<1>>]]]
MantHi == D1[MantLo]

\* c < lo, for c and lo without leading zeros
Below(c, lo) == Len(c) < Len(lo) \/ (Len(c) = Len(lo) /\ CmpDigits(c, lo) < 0)

\* a shift in progress: t = n * 2^k, still below lo
Shifts == [t : Digits, k : Nat, lo : Digits]

\* one more shift by 2^j where that stays below lo
S64[a \in Shifts] ==
    IF Below(D64[a.t], a.lo) THEN [a EXCEPT !.t = D64[a.t], !.k = a.k + 64] ELSE a
S32[a \in Shifts] ==
    IF Below(D32[a.t], a.lo) THEN [a EXCEPT !.t = D32[a.t], !.k = a.k + 32] ELSE a
S16[a \in Shifts] ==
    IF Below(D16[a.t], a.lo) THEN [a EXCEPT !.t = D16[a.t], !.k = a.k + 16] ELSE a
S8[a \in Shifts] ==
    IF Below(D8[a.t], a.lo) THEN [a EXCEPT !.t = D8[a.t], !.k = a.k + 8] ELSE a
S4[a \in Shifts] ==
    IF Below(D4[a.t], a.lo) THEN [a EXCEPT !.t = D4[a.t], !.k = a.k + 4] ELSE a
S2[a \in Shifts] ==
    IF Below(D2[a.t], a.lo) THEN [a EXCEPT !.t = D2[a.t], !.k = a.k + 2] ELSE a
S1[a \in Shifts] ==
    IF Below(D1[a.t], a.lo) THEN [a EXCEPT !.t = D1[a.t], !.k = a.k + 1] ELSE a

\* the least k with n * 2^k >= lo, and n * 2^k (n and lo without leading
\* zeros, 0 < n, k < 128): the greatest shift that stays below lo, plus one
ScaleUp[a \in Shifts] ==
    IF ~Below(a.t, a.lo) THEN a
    ELSE [a EXCEPT !.t = D1[S1[S2[S4[S8[S16[S32[S64[a]]]]]]].t],
                   !.k = S1[S2[S4[S8[S16[S32[S64[a]]]]]]].k + 1]

\* the scaled digits a.t = q.r with Len(r) = sc, rounded to the nearest
\* integer, ties to even; a mantissa that reaches 2^53 is renormalised
RoundMantissa[a \in Shifts, sc \in Nat] ==
    LET q    == SubSeq(a.t, 1, Len(a.t) - sc)
        r    == SubSeq(a.t, Len(a.t) - sc + 1, Len(a.t))
        half == IF sc = 0 THEN 0 ELSE CmpDigits(r, <<5>> \o Zeros(sc - 1))
        odd  == q[Len(q)] % 2 = 1
        m    == IF sc > 0 /\ (half > 0 \/ (half = 0 /\ odd)) THEN IncDigits(q) ELSE q
    IN  IF CmpDigits(m, MantHi) = 0
        THEN [zero |-> FALSE, m |-> MantLo, k |-> a.k - 1]
        ELSE [zero |-> FALSE, m |-> m, k |-> a.k]

ParseFloat(s) ==
    IF IsZeroDigits(s.int \o s.frac) THEN [zero |-> TRUE, m |-> <<0>>, k |-> 0]
    ELSE RoundMantissa[ScaleUp[[t  |-> StripLeading(s.int \o s.frac), k |-> 0,
                               lo |-> MantLo \o Zeros(Len(s.frac))]],
                       Len(s.frac)]

\* x <= y on doubles
FloatLessEq(x, y) ==
    IF x.zero THEN TRUE
    ELSE IF y.zero THEN FALSE
    ELSE IF x.k # y.k THEN x.k > y.k
    ELSE CmpDigits(x.m, y.m) <= 0

\* x < y on doubles
FloatLess(x, y) ==
    IF y.zero THEN FALSE
    ELSE IF x.zero THEN TRUE
    ELSE IF x.k # y.k THEN x.k > y.k
    ELSE CmpDigits(x.m, y.m) < 0

(***************************************************************************)
(* Addresses.  A hex address is the account it names and the letter case   *)
(* it is written in; toLowerCase forgets the case.                         *)
(***************************************************************************)
Addr(who, cs) == [who |-> who, cs |-> cs]

ToLowerCase(a) == [a EXCEPT !.cs = "lower"]

\* process.env.STORE_WALLET_ADDRESS and NETWORK_CONFIG.BASE.usdcAddress
StoreWallet == Addr("store", "mixed")
UsdcAddress == Addr("usdc", "mixed")

UsdcDecimals == 6

(***************************************************************************)
(* What the chain answers.  A receipt is NULL or [status, logs]; a log is  *)
(* [address, ev] where ev is the Transfer event parseLog decodes, or NULL  *)
(* when parseLog throws or decodes nothing; a transaction is NULL or       *)
(* [to, from, value] with to = NULL for a contract creation.  fail is the  *)
(* position of the RPC call that throws (0: none does).                    *)
(***************************************************************************)
Failure(kind, calls) ==
    [kind |-> kind, amount |-> NULL, from |-> NULL,
     expected |-> NULL, actual |-> NULL, calls |-> calls]

IsUsdcLog(log) == ToLowerCase(log.address) = ToLowerCase(UsdcAddress)

IsTransfer(log) == log.ev # NULL

\* a decoding that gives up on the first entry that does not parse
StrictEvents(logs) ==
    IF \E i \in 1..Len(logs) : IsUsdcLog(logs[i]) /\ ~IsTransfer(logs[i]) THEN <<>>
    ELSE SelectSeq(logs, IsUsdcLog)

\* receipt.logs.filter(address).map(parseLog).filter(Transfer)
TransferEvents(logs) == SelectSeq(SelectSeq(logs, IsUsdcLog), IsTransfer)

\* the position of the last transfer to the recipient, 0 when there is none
FindLast(events, recipientAddress) ==
    LET hits == {i \in 1..Len(events) :
                    ToLowerCase(events[i].ev.to) = ToLowerCase(recipientAddress)}
    IN  IF hits = {} THEN 0 ELSE Greatest(hits)

\* transferEvents.find(to = recipient): its position, 0 when there is none
FindRelevant(events, recipientAddress) ==
    LET hits == {i \in 1..Len(events) :
                    ToLowerCase(events[i].ev.to) = ToLowerCase(recipientAddress)}
    IN  IF hits = {} THEN 0 ELSE Least(hits)

\* parseFloat(amount) < parseFloat(expectedAmount)
AmountBelow(amount, expectedAmount) ==
    FloatLess(ParseFloat(amount), ParseFloat(expectedAmount))

VerifyUsdcPayment(rcpt, expectedAmountUsd, recipientAddress, fail) ==
    LET transferEvents == TransferEvents(rcpt.logs)
        at             == FindRelevant(transferEvents, recipientAddress)
        relevantEvent  == transferEvents[at].ev
        amountUsd      == FormatUnits(relevantEvent.value, UsdcDecimals)
    IN  IF fail = 1 THEN Failure("ChainUnavailable", 1)
        ELSE IF rcpt = NULL THEN Failure("TransactionNotFound", 1)
        ELSE IF rcpt.status # 1 THEN Failure("TransactionReverted", 1)
        ELSE IF Len(transferEvents) = 0 THEN Failure("NoTransferFound", 1)
        ELSE IF at = 0 THEN Failure("RecipientMismatch", 1)
        ELSE IF fail = 2 THEN Failure("ChainUnavailable", 2)
        ELSE IF AmountBelow(amountUsd, expectedAmountUsd)
             THEN [kind |-> "InsufficientAmount", amount |-> NULL, from |-> NULL,
                   expected |-> expectedAmountUsd, actual |-> amountUsd, calls |-> 2]
        ELSE [kind |-> "Success", amount |-> amountUsd, from |-> relevantEvent.from,
              expected |-> NULL, actual |-> NULL, calls |-> 2]

\* a verifier that looks at the recipient before the receipt
VerifyEthRecipientFirst(tx, rcpt, expectedAmountEth, recipientAddress, fail) ==
    LET amountEth == FormatEther(tx.value)
    IN  IF fail = 1 THEN Failure("ChainUnavailable", 1)
        ELSE IF tx = NULL THEN Failure("TransactionNotFound", 1)
        ELSE IF tx.to = NULL \/ ToLowerCase(tx.to) # ToLowerCase(recipientAddress)
             THEN Failure("RecipientMismatch", 1)
        ELSE IF fail = 2 THEN Failure("ChainUnavailable", 2)
        ELSE IF rcpt = NULL THEN Failure("ReceiptNotFound", 2)
        ELSE IF rcpt.status # 1 THEN Failure("TransactionReverted", 2)
        ELSE IF AmountBelow(amountEth, expectedAmountEth)
             THEN [kind |-> "InsufficientAmount", amount |-> NULL, from |-> NULL,
                   expected |-> expectedAmountEth, actual |-> amountEth, calls |-> 2]
        ELSE [kind |-> "Success", amount |-> amountEth, from |-> tx.from,
              expected |-> NULL, actual |-> NULL, calls |-> 2]

VerifyEthPayment(tx, rcpt, expectedAmountEth, recipientAddress, fail) ==
    LET amountEth == FormatEther(tx.value)
    IN  IF fail = 1 THEN Failure("ChainUnavailable", 1)
        ELSE IF tx = NULL THEN Failure("TransactionNotFound", 1)
        ELSE IF fail = 2 THEN Failure("ChainUnavailable", 2)
        ELSE IF rcpt = NULL THEN Failure("ReceiptNotFound", 2)
        ELSE IF rcpt.status # 1 THEN Failure("TransactionReverted", 2)
        ELSE IF tx.to = NULL \/ ToLowerCase(tx.to) # ToLowerCase(recipientAddress)
             THEN Failure("RecipientMismatch", 2)
        ELSE IF AmountBelow(amountEth, expectedAmountEth)
             THEN [kind |-> "InsufficientAmount", amount |-> NULL, from |-> NULL,
                   expected |-> expectedAmountEth, actual |-> amountEth, calls |-> 2]
        ELSE [kind |-> "Success", amount |-> amountEth, from |-> tx.from,
              expected |-> NULL, actual |-> NULL, calls |-> 2]

(***************************************************************************)
(* What the caller of a purchase gets when a verifier throws: the message  *)
(* of the throw site, wrapped by the verifier's catch and again by the     *)
(* controller's catch.  A text is the sequence of its parts.               *)
(***************************************************************************)
\* the messages of a provider whose RPC call fails
ProviderMessages == {"timeout", "could not detect network"}

\* the argument of the new Error(...) that ends the try block
ErrorMessage(token, result, providerMessage) ==
    IF result.kind = "ChainUnavailable" THEN <<providerMessage>>
    ELSE IF result.kind = "TransactionNotFound" THEN <<"Transaction not found">>
    ELSE IF result.kind = "ReceiptNotFound" THEN <<"Transaction receipt not found">>
    ELSE IF result.kind = "TransactionReverted" THEN <<"Transaction failed">>
    ELSE IF result.kind = "NoTransferFound" THEN <<"No USDC transfer found in transaction">>
    ELSE IF result.kind = "RecipientMismatch"
         THEN IF token = "USDC" THEN <<"USDC transfer not directed to store wallet">>
              ELSE <<"Transaction not directed to store wallet">>
    ELSE <<"Insufficient payment: expected ", result.expected, ", got ", result.actual>>

\* catch (error) of the verifiers
Rethrow(message) == <<"Payment verification failed: ">> \o message

\* an answer that says no more than that the payment was not verified
GenericFailure(kind, error) ==
    [status |-> 400, error |-> <<"Payment verification failed">>]

\* catch (error) of verifyVideoPurchase and of verifySubscriptionPurchase
PurchaseFailed(kind, error) ==
    [status |-> 500,
     error  |-> <<IF kind = "video" THEN "Purchase verification failed: "
                  ELSE "Subscription purchase failed: ">> \o error]

(***************************************************************************)
(* The verifiers as pure functions: every call drawn from small sets of    *)
(* chain answers, expected amounts and RPC faults.                         *)
(***************************************************************************)
Dec(ip, fp) == [int |-> ip, frac |-> fp]

\* "5.00", "4.99", "1"
P500 == Dec(<<5>>, <<0, 0>>)
P499 == Dec(<<4>>, <<9, 9>>)
P1   == Dec(<<1>>, <<>>)

ExpectedAmounts == {P500, P499, P1}

\* 4.99 and 5 USDC in units of 10^-6
UsdcValues == {<<4, 9, 9>> \o Zeros(4), <<5>> \o Zeros(6)}

\* 1 wei less than 1 ETH, 1 ETH, 4.99 ETH and 5 ETH in wei
EthValues ==
    {[i \in 1..18 |-> 9], <<1>> \o Zeros(18), <<4, 9, 9>> \o Zeros(16), <<5>> \o Zeros(18)}

Payer == Addr("payer", "mixed")

Recipients == {Addr("store", "lower"), Addr("store", "mixed"), Addr("other", "mixed")}

LogSet ==
    [address : {Addr("usdc", "lower")},
     ev : {NULL} \cup [from : {Payer}, to : Recipients \ {StoreWallet}, value : UsdcValues]]
    \cup [address : {Addr("token", "mixed")},
          ev : [from : {Payer}, to : {StoreWallet}, value : {<<5>> \o Zeros(6)}]]

MaxLogs == 2

LogSeqs == UNION {[1..n -> LogSet] : n \in 0..MaxLogs}

UsdcCalls ==
    [token : {"USDC"}, tx : {NULL},
     rcpt : {NULL} \cup [status : {0, 1}, logs : LogSeqs],
     expected : ExpectedAmounts, recipient : {StoreWallet}, fail : 0..2,
     result : {NULL}, response : {NULL}]

EthCalls ==
    [token : {"ETH"},
     tx : {NULL} \cup [to : {NULL} \cup Recipients, from : {Payer}, value : EthValues],
     rcpt : {NULL} \cup [status : {0, 1}, logs : {<<>>}],
     expected : ExpectedAmounts, recipient : {StoreWallet}, fail : 0..2,
     result : {NULL}, response : {NULL}]

(***************************************************************************)
(* The chain the storefront runs against: two confirmed payments of 5      *)
(* to the store wallet, one in the fungible token and one in the native    *)
(* coin.                                                                   *)
(***************************************************************************)
Hashes == {"h1", "h2"}

Tokens == {"USDC", "ETH"}

Chain ==
    [h \in Hashes |->
       IF h = "h1"
       THEN [tx   |-> [to |-> Addr("usdc", "lower"), from |-> Payer, value |-> <<0>>],
             rcpt |-> [status |-> 1,
                       logs |-> <<[address |-> Addr("usdc", "lower"),
                                   ev |-> [from |-> Payer, to |-> Addr("store", "lower"),
                                           value |-> <<5>> \o Zeros(6)]]>>]]
       ELSE [tx   |-> [to |-> Addr("store", "lower"), from |-> Payer,
                       value |-> <<5>> \o Zeros(18)],
             rcpt |-> [status |-> 1, logs |-> <<>>]]]

\* the prices the catalog holds
Prices == {P500}

\* the controllers' choice of verifier, against the store wallet
VerifyPayment(transactionHash, paymentToken, price, fail) ==
    IF paymentToken = "USDC"
    THEN VerifyUsdcPayment(Chain[transactionHash].rcpt, price, StoreWallet, fail)
    ELSE VerifyEthPayment(Chain[transactionHash].tx, Chain[transactionHash].rcpt,
                          price, StoreWallet, fail)

PaymentResult ==
    [h \in Hashes, t \in Tokens, e \in Prices, f \in 0..2 |-> VerifyPayment(h, t, e, f)]

(***************************************************************************)
(* State.  The store is append-only: an update appends a version, and a    *)
(* query returns the matching entities in an order the code does not fix,  *)
(* so entities[0] is any one of them.                                      *)
(***************************************************************************)
VARIABLES
    users,      \* user entities [id, walletAddress, whitelistStatus, subscription]
    videos,     \* video entities [id, isActive, price]
    tiers,      \* subscription_tier entities [id, isActive, priceUsd, durationDays]
    access,     \* user_video_access entities
    now,        \* the day
    req,        \* the purchase requests, by slot
    lastVideo,  \* per video id, the version its most recent create/update wrote
    lastTier,   \* per tier id, likewise
    vq,         \* the verifier call of SpecVerify
    last        \* the latest answer of each endpoint that is not a purchase

vars == <<users, videos, tiers, access, now, req, lastVideo, lastTier, vq, last>>

store == <<users, videos, tiers, access, now, req, lastVideo, lastTier, last>>

MaxReq    == 2
MaxUsers  == 1
MaxVideos == 2
MaxTiers  == 1
MaxDay    == 1

DurationDays == 30

Slots    == 1..MaxReq
VideoIds == 1..MaxVideos
TierIds  == 1..MaxTiers

WalletNames == <<"w1", "w2", "w3">>

Wallets == {Addr(WalletNames[i], "lower") : i \in 1..MaxUsers}

(***************************************************************************)
(* Dates.  A Date object holds a time value, here the day counted from     *)
(* day 0, which is 31 January of the year before a leap year.  getDate and *)
(* setDate go through the calendar.                                        *)
(***************************************************************************)
\* the length of month m, m = 0 being January of the first year
MonthLength(m) ==
    IF m % 12 = 1 THEN (IF m \div 12 = 1 THEN 29 ELSE 28)
    ELSE IF m % 12 \in {3, 5, 8, 10} THEN 30 ELSE 31

RECURSIVE DateFromTime(_, _)
\* the day of the month of the day `rest` days after the first of month m
DateFromTime(m, rest) ==
    IF rest < MonthLength(m) THEN rest + 1
    ELSE DateFromTime(m + 1, rest - MonthLength(m))

\* Date.prototype.getDate
GetDate(t) == DateFromTime(0, t + 30)

\* Date.prototype.setDate(dt): day dt of the month of t, where a dt beyond
\* the end of the month runs on into the following months (MakeDay)
SetDate(t, dt) == (t - GetDate(t) + 1) + (dt - 1)

\* new Date() on day t
Date(t) == [date |-> t]

IsDate(v) == "date" \in DOMAIN v

\* JSON.stringify writes a Date as its ISO string, and JSON.parse gives the
\* string back: what was a Date is a string in every entity read from the store
ToJSON(v) == IF IsDate(v) THEN [iso |-> v.date] ELSE v

\* encodeData, as decodeData returns it
EncodeData(data) ==
    [data EXCEPT !.createdAt = ToJSON(@),
                 !.subscription = IF @ = NULL THEN NULL
                                  ELSE [@ EXCEPT !.startDate = ToJSON(@),
                                                 !.endDate = ToJSON(@)]]

\* endDate > new Date(): the Date becomes its time value and the other side a
\* number; the ISO string of a decoded entity is not a number (NaN), and
\* every comparison with NaN is false
LaterThan(endDate, t) == IF IsDate(endDate) THEN endDate.date > t ELSE FALSE

\* subscription?.isActive && !!subscription.endDate && subscription.endDate > new Date()
HasSubscriptionAccess(subscription, t) ==
    /\ subscription # NULL
    /\ subscription.isActive
    /\ subscription.endDate # NULL
    /\ LaterThan(subscription.endDate, t)

\* generateId(): an id no entity of the collection has
GenerateId(S) == Cardinality({e.id : e \in S}) + 1

\* entities[0] of a query, or NULL when nothing matches
First(matches) == IF matches = {} THEN {NULL} ELSE matches

FindUserByWallet(walletAddress) ==
    First({u \in users : u.walletAddress = walletAddress})

GetUserById(id) == First({u \in users : u.id = id})

GetVideoById(id) == First({v \in videos : v.id = id})

GetSubscriptionTierById(id) == First({t \in tiers : t.id = id})

\* the second query is findUserByWallet(""), whatever the user
CheckUserVideoAccess(userId, videoId) ==
    \/ \E a \in access : a.userId = userId /\ a.videoId = videoId
    \/ \E u \in users :
          /\ u.walletAddress = Addr("", "lower")
          /\ HasSubscriptionAccess(u.subscription, now)

\* the new user of createUser; the store keeps EncodeData of it
CreateUser(walletAddress, whitelistStatus) ==
    [id |-> GenerateId(users), walletAddress |-> walletAddress,
     whitelistStatus |-> whitelistStatus, subscription |-> NULL,
     createdAt |-> Date(now)]

\* updateUser builds the annotations of the new version with
\* updatedUser.createdAt.getTime(): a TypeError unless createdAt is a Date
Throws(updatedUser) == ~IsDate(updatedUser.createdAt)

\* a write that is made before the annotations are built
SaveAnyway(S, updatedUser) == S \cup {EncodeData(updatedUser)}

\* updateUser after its getUserById: the store once the call has ended
SaveUser(S, updatedUser) ==
    IF Throws(updatedUser) THEN S ELSE S \cup {EncodeData(updatedUser)}

\* the two reads of the clock, new Date() twice: the day may change between them
LaterClock == {t \in {now, now + 1} : t <= MaxDay}

\* startDate, and endDate.setDate(startDate.getDate() + durationDays)
SubscriptionDates(t, later, durationDays) ==
    [startDate |-> Date(t),
     endDate   |-> Date(SetDate(later, GetDate(t) + durationDays))]

Idle ==
    [pc |-> "idle", kind |-> "", principal |-> NULL, hash |-> "", item |-> 0,
     token |-> "", found |-> NULL, payment |-> NULL, sub |-> NULL,
     existing |-> NULL, outcome |-> "", calls |-> 0, live |-> FALSE, after |-> {},
     paid |-> FALSE, fault |-> ""]

\* the response is sent: the handler's locals are gone.  Of a finished
\* request the model keeps who asked, for what, how it ended, and the
\* subscription state it had computed
Respond(r, outcome) ==
    [r EXCEPT !.pc = "done", !.outcome = outcome, !.found = NULL,
              !.payment = NULL, !.existing = NULL, !.token = "",
              !.live = (r.live /\ outcome = "Granted")]

\* no endpoint has answered yet
Silent == [accounts |-> "", cancel |-> NULL, status |-> NULL, content |-> NULL]

Init ==
    /\ users = {} /\ videos = {} /\ tiers = {} /\ access = {}
    /\ now = 0
    /\ req = [i \in Slots |-> Idle]
    /\ lastVideo = [v \in VideoIds |-> NULL]
    /\ lastTier = [t \in TierIds |-> NULL]
    /\ vq = NULL
    /\ last = Silent

(***************************************************************************)
(* Administration and login.                                               *)
(***************************************************************************)
\* AuthService.authenticateUser: find the user or create it pending, sign the
\* token, then updateUser(lastLogin); when that throws, the catch returns
\* null and the route answers 401
AuthenticateUser(walletAddress) ==
    /\ \E found \in FindUserByWallet(walletAddress) :
          LET user    == IF found = NULL
                         THEN EncodeData(CreateUser(walletAddress, "pending"))
                         ELSE found
              created == users \cup {user}
          IN  \E existing \in {u \in created : u.id = user.id} :
                 /\ users' = SaveUser(created, existing)
                 /\ last' = [last EXCEPT !.accounts =
                               IF Throws(existing) THEN "AuthenticationFailed"
                               ELSE "Authenticated"]
    /\ UNCHANGED <<videos, tiers, access, now, req, lastVideo, lastTier, vq>>

AddUserToWhitelist(walletAddress) ==
    /\ \E found \in FindUserByWallet(walletAddress) :
          IF found = NULL
          THEN /\ users' = users \cup {EncodeData(CreateUser(walletAddress, "approved"))}
               /\ last' = [last EXCEPT !.accounts = "Whitelisted"]
          ELSE \E existing \in GetUserById(found.id) :
                  LET updatedUser == [existing EXCEPT !.whitelistStatus = "approved"]
                  IN  /\ users' = SaveUser(users, updatedUser)
                      /\ last' = [last EXCEPT !.accounts =
                                    IF Throws(updatedUser) THEN "InternalError"
                                    ELSE "Whitelisted"]
    /\ UNCHANGED <<videos, tiers, access, now, req, lastVideo, lastTier, vq>>

RemoveUserFromWhitelist(walletAddress) ==
    /\ \E found \in FindUserByWallet(walletAddress) :
          IF found = NULL
          THEN /\ last' = [last EXCEPT !.accounts = "UserNotFound"]
               /\ UNCHANGED users
          ELSE \E existing \in GetUserById(found.id) :
                  LET updatedUser == [existing EXCEPT !.whitelistStatus = "rejected"]
                  IN  /\ users' = SaveUser(users, updatedUser)
                      /\ last' = [last EXCEPT !.accounts =
                                    IF Throws(updatedUser) THEN "InternalError"
                                    ELSE "Removed"]
    /\ UNCHANGED <<videos, tiers, access, now, req, lastVideo, lastTier, vq>>

CreateVideo(isActive, price) ==
    /\ GenerateId(videos) \in VideoIds
    /\ LET newVideo == [id |-> GenerateId(videos), isActive |-> isActive, price |-> price]
       IN  /\ videos' = videos \cup {newVideo}
           /\ lastVideo' = [lastVideo EXCEPT ![newVideo.id] = newVideo]
    /\ UNCHANGED <<users, tiers, access, now, req, lastTier, vq, last>>

\* updates = {isActive}
UpdateVideo(id, isActive) ==
    /\ \E existingVideo \in GetVideoById(id) :
          /\ existingVideo # NULL
          /\ videos' = videos \cup {[existingVideo EXCEPT !.isActive = isActive]}
          /\ lastVideo' = [lastVideo EXCEPT ![id] = [existingVideo EXCEPT !.isActive = isActive]]
    /\ UNCHANGED <<users, tiers, access, now, req, lastTier, vq, last>>

CreateSubscriptionTier(isActive, priceUsd, durationDays) ==
    /\ GenerateId(tiers) \in TierIds
    /\ LET newTier == [id |-> GenerateId(tiers), isActive |-> isActive,
                       priceUsd |-> priceUsd, durationDays |-> durationDays]
       IN  /\ tiers' = tiers \cup {newTier}
           /\ lastTier' = [lastTier EXCEPT ![newTier.id] = newTier]
    /\ UNCHANGED <<users, videos, access, now, req, lastVideo, vq, last>>

UpdateSubscriptionTier(id, isActive) ==
    /\ \E existingTier \in GetSubscriptionTierById(id) :
          /\ existingTier # NULL
          /\ tiers' = tiers \cup {[existingTier EXCEPT !.isActive = isActive]}
          /\ lastTier' = [lastTier EXCEPT ![id] = [existingTier EXCEPT !.isActive = isActive]]
    /\ UNCHANGED <<users, videos, access, now, req, lastVideo, vq, last>>

Tick ==
    /\ now < MaxDay
    /\ now' = now + 1
    /\ UNCHANGED <<users, videos, tiers, access, req, lastVideo, lastTier, vq, last>>

(***************************************************************************)
(* A purchase request, one step per store or chain round trip.             *)
(***************************************************************************)
\* what a token can carry.  The credential verifier is outside the model:
\* a principal is the id, wallet and whitelist status of a stored user
Principals ==
    {[id |-> u.id, walletAddress |-> u.walletAddress,
      whitelistStatus |-> u.whitelistStatus] : u \in users}

\* a test that every whitelist status passes
WhitelistAny(user) == TRUE

\* whitelistStatus !== 'approved', negated: the test of requireWhitelist on
\* the principal and of the purchase controllers on the stored user
WhitelistApproved(user) == user.whitelistStatus = "approved"

\* AuthMiddleware.requireWhitelist
RequireWhitelist(principal) == WhitelistApproved(principal)

ItemIds(kind) == IF kind = "video" THEN VideoIds ELSE TierIds

\* the request arrives.  requireWhitelist answers 403 before the body is
\* read; otherwise the controller validates the body and looks the user up
Authorize(i, kinds) ==
    /\ req[i].pc = "idle"
    /\ IF i = 1 THEN TRUE ELSE req[i - 1].pc # "idle"
    /\ \E principal \in Principals :
          LET arrived == [Idle EXCEPT !.principal = principal,
                                      !.after = {j \in Slots : req[j].pc = "done"}]
          IN  IF ~RequireWhitelist(principal)
              THEN req' = [req EXCEPT ![i] = Respond(arrived, "Unauthorized")]
              ELSE \E kind \in kinds,
                      transactionHash \in Hashes, paymentToken \in Tokens :
                   \E item \in ItemIds(kind),
                      user \in FindUserByWallet(principal.walletAddress) :
                      LET r == [arrived EXCEPT !.kind = kind, !.hash = transactionHash,
                                               !.item = item, !.token = paymentToken]
                      IN  req' = [req EXCEPT ![i] =
                                    IF user = NULL THEN Respond(r, "Unauthorized")
                                    ELSE IF ~WhitelistApproved(user)
                                    THEN Respond(r, "Unauthorized")
                                    ELSE [r EXCEPT !.pc = "lookup"]]
    /\ UNCHANGED <<users, videos, tiers, access, now, lastVideo, lastTier, vq, last>>

\* getVideoById / getSubscriptionTierById and the isActive test
Lookup(i) ==
    /\ req[i].pc = "lookup"
    /\ \E found \in IF req[i].kind = "video" THEN GetVideoById(req[i].item)
                    ELSE GetSubscriptionTierById(req[i].item) :
          LET latest == IF req[i].kind = "video" THEN lastVideo[req[i].item]
                        ELSE lastTier[req[i].item]
              r      == [req[i] EXCEPT !.live = (latest # NULL /\ latest.isActive)]
          IN  req' = [req EXCEPT ![i] =
                        IF found = NULL \/ ~found.isActive
                        THEN Respond(r, "ItemUnavailable")
                        ELSE [r EXCEPT !.pc = "verify", !.found = found]]
    /\ UNCHANGED <<users, videos, tiers, access, now, lastVideo, lastTier, vq, last>>

\* the chain verification; a subscription's dates are computed right after,
\* from two reads of the clock
Verify(i) ==
    /\ req[i].pc = "verify"
    /\ \E fail \in 0..2 :
       \E result \in {PaymentResult[req[i].hash, req[i].token,
                                    IF req[i].kind = "video" THEN req[i].found.price
                                    ELSE req[i].found.priceUsd, fail]} :
       \E r \in {[req[i] EXCEPT !.calls = result.calls,
                                !.paid = (result.kind = "Success")]} :
          IF result.kind # "Success"
          THEN /\ req' = [req EXCEPT ![i] = Respond(r, result.kind)]
               /\ UNCHANGED now
          ELSE IF req[i].kind = "video"
          THEN /\ req' = [req EXCEPT ![i] =
                            [r EXCEPT !.pc = "check", !.payment = result.amount]]
               /\ UNCHANGED now
          ELSE \E later \in LaterClock :
               \E dates \in {SubscriptionDates(now, later, req[i].found.durationDays)} :
                  /\ req' = [req EXCEPT ![i] =
                               [r EXCEPT !.pc = "read", !.payment = result.amount,
                                         !.sub = [tierId    |-> req[i].found.id,
                                                  startDate |-> dates.startDate,
                                                  endDate   |-> dates.endDate,
                                                  isActive  |-> TRUE]]]
                  /\ now' = later
    /\ UNCHANGED <<users, videos, tiers, access, lastVideo, lastTier, vq, last>>

\* checkUserVideoAccess(userId, videoId)
CheckAccess(i) ==
    /\ req[i].pc = "check"
    /\ req' = [req EXCEPT ![i] =
                 IF CheckUserVideoAccess(req[i].principal.id, req[i].item)
                 THEN Respond(req[i], "AlreadyGranted")
                 ELSE [req[i] EXCEPT !.pc = "record"]]
    /\ UNCHANGED <<users, videos, tiers, access, now, lastVideo, lastTier, vq, last>>

\* a write that keeps the new entity only
ReplaceEntities(S, newAccess) == {newAccess}

\* client.createEntities: the entity is added, nothing stored is touched
CreateEntities(S, newAccess) == S \cup {newAccess}

RecordUserVideoAccess(i) ==
    /\ req[i].pc = "record"
    /\ access' = CreateEntities(access,
           [id |-> GenerateId(access), userId |-> req[i].principal.id,
            videoId |-> req[i].item, transactionHash |-> req[i].hash,
            paymentToken |-> req[i].token, amountPaid |-> req[i].payment])
    /\ req' = [req EXCEPT ![i] = Respond(req[i], "Granted")]
    /\ UNCHANGED <<users, videos, tiers, now, lastVideo, lastTier, vq, last>>

\* updateUser, first half: getUserById
ReadUser(i) ==
    /\ req[i].pc = "read"
    /\ \E existingUser \in GetUserById(req[i].principal.id) :
          req' = [req EXCEPT ![i] =
                    IF existingUser = NULL THEN Respond(req[i], "StorageFailure")
                    ELSE [req[i] EXCEPT !.pc = "write", !.existing = existingUser]]
    /\ UNCHANGED <<users, videos, tiers, access, now, lastVideo, lastTier, vq, last>>

\* updateUser, second half: the merged user is appended, unless building
\* its annotations throws, which the controller's catch answers with 500
WriteUser(i) ==
    /\ req[i].pc = "write"
    /\ LET updatedUser == [req[i].existing EXCEPT !.subscription = req[i].sub]
       IN  /\ users' = SaveUser(users, updatedUser)
           /\ req' = [req EXCEPT ![i] =
                        Respond(req[i], IF Throws(updatedUser) THEN "InternalError"
                                        ELSE "Granted")]
    /\ UNCHANGED <<videos, tiers, access, now, lastVideo, lastTier, vq, last>>

(***************************************************************************)
(* The endpoints behind requireAuth: content, subscription status and      *)
(* cancellation.  Each answer is kept with what held when it was given.    *)
(***************************************************************************)
\* the day a date stands for, as a Date or as its ISO string
Day(date) == IF IsDate(date) THEN date.date ELSE date.iso

\* the subscription states that the principal's verified purchases computed
Purchased(principal) ==
    {req[i].sub : i \in {j \in Slots : /\ req[j].pc = "done"
                                       /\ req[j].kind = "subscription"
                                       /\ req[j].paid
                                       /\ req[j].principal.id = principal.id}}

\* VideoController.getVideoContent
GetVideoContent(principal, id) ==
    /\ \E video \in GetVideoById(id) :
          last' = [last EXCEPT !.content =
                     [principal  |-> principal,
                      video      |-> id,
                      outcome    |-> IF video = NULL THEN "NotFound"
                                     ELSE IF ~video.isActive THEN "NotAvailable"
                                     ELSE IF ~CheckUserVideoAccess(principal.id, video.id)
                                          THEN "Forbidden"
                                     ELSE "Served",
                      live       |-> IF lastVideo[id] = NULL THEN FALSE
                                     ELSE lastVideo[id].isActive,
                      entitled   |-> \E e \in access : /\ e.userId = principal.id
                                                       /\ e.videoId = id,
                      subscribed |-> \E u \in users :
                                        /\ u.id = principal.id
                                        /\ u.subscription # NULL
                                        /\ u.subscription.isActive
                                        /\ now < Day(u.subscription.endDate)]]
    /\ UNCHANGED <<users, videos, tiers, access, now, req, lastVideo, lastTier, vq>>

\* PurchaseController.getSubscriptionStatus
GetSubscriptionStatus(principal) ==
    /\ \E user \in FindUserByWallet(principal.walletAddress) :
          last' = [last EXCEPT !.status =
                     [principal    |-> principal,
                      outcome      |-> IF user = NULL THEN "UserNotFound" ELSE "Ok",
                      isActive     |-> IF user = NULL THEN FALSE
                                       ELSE HasSubscriptionAccess(user.subscription, now),
                      subscription |-> IF user = NULL THEN NULL ELSE user.subscription,
                      on           |-> now,
                      cancelled    |-> IF last.cancel = NULL THEN {}
                                       ELSE IF last.cancel.principal.id # principal.id THEN {}
                                       ELSE last.cancel.purchased]]
    /\ UNCHANGED <<users, videos, tiers, access, now, req, lastVideo, lastTier, vq>>

\* a test that lets every user through
HasAnySubscription(user) == TRUE

\* !user.subscription || !user.subscription.isActive, negated
HasActiveSubscription(user) ==
    IF user.subscription = NULL THEN FALSE ELSE user.subscription.isActive

\* {...user.subscription, isActive: false}
Deactivated(subscription) ==
    IF subscription = NULL THEN [isActive |-> FALSE]
    ELSE [subscription EXCEPT !.isActive = FALSE]

\* PurchaseController.cancelSubscription, updateUser included
CancelSubscription(principal) ==
    /\ \E user \in FindUserByWallet(principal.walletAddress) :
          LET answer(outcome, after) ==
                 /\ users' = after
                 /\ last' = [last EXCEPT !.cancel =
                               [principal |-> principal, outcome |-> outcome,
                                found     |-> user,
                                wrote     |-> after # users,
                                purchased |-> Purchased(principal)]]
          IN  IF user = NULL THEN answer("UserNotFound", users)
              ELSE IF ~HasActiveSubscription(user)
                   THEN answer("NoActiveSubscription", users)
              ELSE \E existing \in GetUserById(principal.id) :
                      IF existing = NULL THEN answer("InternalError", users)
                      ELSE \E updatedUser \in
                              {[existing EXCEPT
                                   !.subscription = Deactivated(user.subscription)]} :
                              answer(IF Throws(updatedUser) THEN "InternalError"
                                     ELSE "Cancelled",
                                     SaveUser(users, updatedUser))
    /\ UNCHANGED <<videos, tiers, access, now, req, lastVideo, lastTier, vq>>

Accounts ==
    \/ \E w \in Wallets : AuthenticateUser(w)
    \/ \E w \in Wallets : AddUserToWhitelist(w)
    \/ \E w \in Wallets : RemoveUserFromWhitelist(w)

VideoCatalog ==
    \/ \E a \in BOOLEAN, p \in Prices : CreateVideo(a, p)
    \/ \E v \in VideoIds, a \in BOOLEAN : UpdateVideo(v, a)

TierCatalog ==
    \/ \E a \in BOOLEAN, p \in Prices : CreateSubscriptionTier(a, p, DurationDays)
    \/ \E t \in TierIds, a \in BOOLEAN : UpdateSubscriptionTier(t, a)

(***************************************************************************)
(* The same steps of a purchase when client.queryEntities throws.  Each    *)
(* query function catches the error and returns what it returns when       *)
(* nothing matches: null, or false for the access check.                   *)
(***************************************************************************)
\* findUserByWallet throws inside: the controller sees no user
AuthorizeFault(i, kinds) ==
    /\ req[i].pc = "idle"
    /\ IF i = 1 THEN TRUE ELSE req[i - 1].pc # "idle"
    /\ \E principal \in Principals :
          /\ RequireWhitelist(principal)
          /\ \E kind \in kinds, transactionHash \in Hashes, paymentToken \in Tokens :
             \E item \in ItemIds(kind), user \in {NULL} :
                LET r == [Idle EXCEPT !.principal = principal,
                                      !.after = {j \in Slots : req[j].pc = "done"},
                                      !.kind = kind, !.hash = transactionHash,
                                      !.item = item, !.token = paymentToken,
                                      !.fault = "findUserByWallet"]
                IN  req' = [req EXCEPT ![i] =
                              IF user = NULL THEN Respond(r, "Unauthorized")
                              ELSE [r EXCEPT !.pc = "lookup"]]
    /\ UNCHANGED <<users, videos, tiers, access, now, lastVideo, lastTier, vq, last>>

\* getVideoById / getSubscriptionTierById throws inside: no item is found
LookupFault(i) ==
    /\ req[i].pc = "lookup"
    /\ \E found \in {NULL} :
          LET r == [req[i] EXCEPT !.fault = "getItemById"]
          IN  req' = [req EXCEPT ![i] =
                        IF found = NULL THEN Respond(r, "ItemUnavailable")
                        ELSE [r EXCEPT !.pc = "verify", !.found = found]]
    /\ UNCHANGED <<users, videos, tiers, access, now, lastVideo, lastTier, vq, last>>

\* checkUserVideoAccess throws inside: its catch returns false
CheckAccessFault(i) ==
    /\ req[i].pc = "check"
    /\ \E hasAccess \in {FALSE} :
          LET r == [req[i] EXCEPT !.fault = "checkUserVideoAccess"]
          IN  req' = [req EXCEPT ![i] =
                        IF hasAccess THEN Respond(r, "AlreadyGranted")
                        ELSE [r EXCEPT !.pc = "record"]]
    /\ UNCHANGED <<users, videos, tiers, access, now, lastVideo, lastTier, vq, last>>

\* await this.provider.getTransactionReceipt / getTransaction with a
\* provider that does not answer: the handler sets no timer and races the
\* promise with nothing, so it stays suspended at the await
AwaitProvider(i) ==
    /\ req[i].pc = "verify"
    /\ req' = [req EXCEPT ![i] = [req[i] EXCEPT !.pc = "rpc", !.calls = 1]]
    /\ UNCHANGED <<users, videos, tiers, access, now, lastVideo, lastTier, vq, last>>

\* every endpoint, one request against any history of administration
Next ==
    \/ Accounts
    \/ VideoCatalog
    \/ TierCatalog
    \/ Tick
    \/ Authorize(1, {"video", "subscription"})
    \/ Lookup(1)
    \/ Verify(1)
    \/ CheckAccess(1)
    \/ RecordUserVideoAccess(1)
    \/ ReadUser(1)
    \/ WriteUser(1)

Spec == Init /\ [][Next]_vars

\* verifyVideoPurchase, MaxReq requests in flight together
NextVideo ==
    \/ Accounts
    \/ VideoCatalog
    \/ \E i \in Slots : Authorize(i, {"video"})
    \/ \E i \in Slots : Lookup(i)
    \/ \E i \in Slots : Verify(i)
    \/ \E i \in Slots : CheckAccess(i)
    \/ \E i \in Slots : RecordUserVideoAccess(i)

SpecVideo == Init /\ [][NextVideo]_vars

\* verifySubscriptionPurchase, MaxReq requests in flight together
NextSubscription ==
    \/ Accounts
    \/ TierCatalog
    \/ Tick
    \/ \E i \in Slots : Authorize(i, {"subscription"})
    \/ \E i \in Slots : Lookup(i)
    \/ \E i \in Slots : Verify(i)
    \/ \E i \in Slots : ReadUser(i)
    \/ \E i \in Slots : WriteUser(i)

SpecSubscription == Init /\ [][NextSubscription]_vars

\* the subscription endpoints: one purchase at a time, status and
\* cancellation
NextLifecycle ==
    \/ Accounts
    \/ TierCatalog
    \/ Tick
    \/ Authorize(1, {"subscription"})
    \/ Lookup(1)
    \/ Verify(1)
    \/ ReadUser(1)
    \/ WriteUser(1)
    \/ \E principal \in Principals : CancelSubscription(principal)
    \/ \E principal \in Principals : GetSubscriptionStatus(principal)

SpecLifecycle == Init /\ [][NextLifecycle]_vars

\* content serving, against one video purchase at a time
NextContent ==
    \/ Accounts
    \/ VideoCatalog
    \/ Authorize(1, {"video"})
    \/ Lookup(1)
    \/ Verify(1)
    \/ CheckAccess(1)
    \/ RecordUserVideoAccess(1)
    \/ \E principal \in Principals, id \in VideoIds : GetVideoContent(principal, id)

SpecContent == Init /\ [][NextContent]_vars

CallVerifyUsdc ==
    /\ vq # NULL /\ vq.result = NULL /\ vq.token = "USDC"
    /\ vq' = [vq EXCEPT !.result =
                 VerifyUsdcPayment(vq.rcpt, vq.expected, vq.recipient, vq.fail)]
    /\ UNCHANGED store

CallVerifyEth ==
    /\ vq # NULL /\ vq.result = NULL /\ vq.token = "ETH"
    /\ vq' = [vq EXCEPT !.result =
                 VerifyEthPayment(vq.tx, vq.rcpt, vq.expected, vq.recipient, vq.fail)]
    /\ UNCHANGED store

\* one purchase of either kind against a store whose queries can fail
NextFaults ==
    \/ Accounts
    \/ VideoCatalog
    \/ TierCatalog
    \/ Authorize(1, {"video", "subscription"})
    \/ AuthorizeFault(1, {"video", "subscription"})
    \/ Lookup(1)
    \/ LookupFault(1)
    \/ Verify(1)
    \/ CheckAccess(1)
    \/ CheckAccessFault(1)
    \/ RecordUserVideoAccess(1)
    \/ ReadUser(1)
    \/ WriteUser(1)

SpecFaults == Init /\ [][NextFaults]_vars

\* one purchase of either kind against a chain whose RPC may not answer;
\* a handler that can take a step takes it
StepTimeout ==
    \/ Authorize(1, {"video", "subscription"})
    \/ Lookup(1)
    \/ Verify(1)
    \/ AwaitProvider(1)
    \/ CheckAccess(1)
    \/ RecordUserVideoAccess(1)
    \/ ReadUser(1)
    \/ WriteUser(1)

NextTimeout ==
    \/ Accounts
    \/ VideoCatalog
    \/ TierCatalog
    \/ StepTimeout

SpecTimeout ==
    /\ Init /\ [][NextTimeout]_vars
    /\ WF_vars(Lookup(1) \/ Verify(1) \/ CheckAccess(1))
    /\ WF_vars(RecordUserVideoAccess(1) \/ ReadUser(1) \/ WriteUser(1))

\* purchases of either kind, MaxReq requests in flight together, against a
\* catalog that only grows
NextFrame ==
    \/ Accounts
    \/ \E a \in BOOLEAN, p \in Prices : CreateVideo(a, p)
    \/ \E a \in BOOLEAN, p \in Prices : CreateSubscriptionTier(a, p, DurationDays)
    \/ \E i \in Slots : Authorize(i, {"video", "subscription"})
    \/ \E i \in Slots : Lookup(i)
    \/ \E i \in Slots : Verify(i)
    \/ \E i \in Slots : CheckAccess(i)
    \/ \E i \in Slots : RecordUserVideoAccess(i)
    \/ \E i \in Slots : ReadUser(i)
    \/ \E i \in Slots : WriteUser(i)

SpecFrame == Init /\ [][NextFrame]_vars

\* a video purchase and then a subscription purchase, so that the second
\* can submit the transaction hash of the first
NextResubmit ==
    \/ Accounts
    \/ VideoCatalog
    \/ TierCatalog
    \/ Authorize(1, {"video"})
    \/ Authorize(2, {"subscription"})
    \/ \E i \in Slots : Lookup(i)
    \/ \E i \in Slots : Verify(i)
    \/ CheckAccess(1)
    \/ RecordUserVideoAccess(1)
    \/ ReadUser(2)
    \/ WriteUser(2)

SpecResubmit == Init /\ [][NextResubmit]_vars

\* the verifier has thrown: its catch and the controller's catch answer
CatchPurchase ==
    /\ vq # NULL /\ vq.result # NULL /\ vq.response = NULL
    /\ vq.result.kind # "Success"
    /\ \E kind \in {"video", "subscription"}, providerMessage \in ProviderMessages :
          vq' = [vq EXCEPT !.response =
                    PurchaseFailed(kind, Rethrow(ErrorMessage(vq.token, vq.result,
                                                              providerMessage)))]
    /\ UNCHANGED store

InitVerify ==
    /\ users = {} /\ videos = {} /\ tiers = {} /\ access = {}
    /\ now = 0
    /\ req = [i \in Slots |-> Idle]
    /\ lastVideo = [v \in VideoIds |-> NULL]
    /\ lastTier = [t \in TierIds |-> NULL]
    /\ vq \in UsdcCalls \cup EthCalls
    /\ last = Silent

NextVerify == CallVerifyUsdc \/ CallVerifyEth \/ CatchPurchase

SpecVerify == InitVerify /\ [][NextVerify]_vars

(***************************************************************************)
(* The payment step of a purchase on its own: a request body that also     *)
(* carries an amount of the client's choosing, the catalog item the        *)
(* controller resolved, and the chain.                                     *)
(***************************************************************************)
P9 == Dec(<<9>>, <<>>)

Bodies ==
    [kind : {"video", "subscription"}, transactionHash : Hashes,
     paymentToken : Tokens, amount : {NULL, P1, P9}]

\* what getVideoById / getSubscriptionTierById returned
Items(kind) ==
    IF kind = "video" THEN [id : {1}, isActive : {TRUE}, price : {P1, P500, P9}]
    ELSE [id : {1}, isActive : {TRUE}, priceUsd : {P1, P500, P9},
          durationDays : {DurationDays}]

PurchaseCalls ==
    UNION {[op : {"purchase"}, body : {body}, found : Items(body.kind), fail : 0..2,
            result : {NULL}, amountPaid : {NULL}] : body \in Bodies}

\* an expected amount taken from the request when it names one
TrustedAmount(body, found) ==
    IF body.amount # NULL THEN body.amount
    ELSE IF body.kind = "video" THEN found.price ELSE found.priceUsd

\* video.pricing.singlePriceUsd / tier.priceUsd, the second argument of the
\* verifier call
ExpectedAmount(body, found) ==
    IF body.kind = "video" THEN found.price ELSE found.priceUsd

\* the verifier call of the controllers and the amountPaid they record and
\* return
VerifyPurchase ==
    /\ vq.op = "purchase" /\ vq.result = NULL
    /\ \E paymentResult \in {VerifyPayment(vq.body.transactionHash, vq.body.paymentToken,
                                            ExpectedAmount(vq.body, vq.found), vq.fail)} :
          vq' = [vq EXCEPT !.result = paymentResult,
                           !.amountPaid = IF paymentResult.kind = "Success"
                                          THEN paymentResult.amount ELSE NULL]
    /\ UNCHANGED store

InitPurchase ==
    /\ users = {} /\ videos = {} /\ tiers = {} /\ access = {}
    /\ now = 0
    /\ req = [i \in Slots |-> Idle]
    /\ lastVideo = [v \in VideoIds |-> NULL]
    /\ lastTier = [t \in TierIds |-> NULL]
    /\ vq \in PurchaseCalls
    /\ last = Silent

NextPurchase == VerifyPurchase

SpecPurchase == InitPurchase /\ [][NextPurchase]_vars

(***************************************************************************)
(* The date computations on their own: the subscription dates of a         *)
(* purchase on any day of two years, and the test for a subscription in    *)
(* effect on what the purchase writes and on what the store gives back.    *)
(***************************************************************************)
MaxStart == 400

MaxEnd == 3

DateCalls ==
    [op : {"dates"}, start : 0..MaxStart, durationDays : {DurationDays},
     later : {0}, result : {NULL}]

\* the subscription object of verifySubscriptionPurchase, as built and as
\* a query returns it once stored, and no subscription
Subscriptions ==
    LET built == [tierId : TierIds, startDate : {Date(0)},
                  endDate : {Date(t) : t \in 0..MaxEnd}, isActive : BOOLEAN]
    IN  {NULL} \cup built
               \cup {[b EXCEPT !.startDate = ToJSON(@), !.endDate = ToJSON(@)] : b \in built}

EffectiveCalls ==
    [op : {"effective"}, subscription : Subscriptions, on : 0..MaxEnd, result : {NULL}]

\* lines 196-199 of verifySubscriptionPurchase, the second new Date() on the
\* same day or on the next
ComputeDates ==
    /\ vq.op = "dates" /\ vq.result = NULL
    /\ \E later \in {vq.start, vq.start + 1} :
          vq' = [vq EXCEPT !.later = later,
                           !.result = SubscriptionDates(vq.start, later, vq.durationDays)]
    /\ UNCHANGED store

\* the isActive of getSubscriptionStatus and hasSubscriptionAccess
ReportEffective ==
    /\ vq.op = "effective" /\ vq.result = NULL
    /\ vq' = [vq EXCEPT !.result = [isActive |-> HasSubscriptionAccess(vq.subscription, vq.on)]]
    /\ UNCHANGED store

InitDates ==
    /\ users = {} /\ videos = {} /\ tiers = {} /\ access = {}
    /\ now = 0
    /\ req = [i \in Slots |-> Idle]
    /\ lastVideo = [v \in VideoIds |-> NULL]
    /\ lastTier = [t \in TierIds |-> NULL]
    /\ vq \in DateCalls \cup EffectiveCalls
    /\ last = Silent

NextDates == ComputeDates \/ ReportEffective

SpecDates == InitDates /\ [][NextDates]_vars

(***************************************************************************)
(* Properties of the verifiers (SpecVerify).                               *)
(***************************************************************************)
\* the transfer (fungible) or transaction (native) a call is judged by
RelevantAt(c) == FindRelevant(TransferEvents(c.rcpt.logs), c.recipient)

HasPayment(c) ==
    IF c.token = "USDC" THEN c.rcpt # NULL /\ RelevantAt(c) # 0
    ELSE c.tx # NULL /\ c.tx.to # NULL /\ ToLowerCase(c.tx.to) = ToLowerCase(c.recipient)

PaidRaw(c) ==
    IF c.token = "USDC" THEN TransferEvents(c.rcpt.logs)[RelevantAt(c)].ev.value
    ELSE c.tx.value

PaidFrom(c) ==
    IF c.token = "USDC" THEN TransferEvents(c.rcpt.logs)[RelevantAt(c)].ev.from
    ELSE c.tx.from

PaidDecimals(c) == IF c.token = "USDC" THEN UsdcDecimals ELSE EtherDecimals

StatusSuccess(c) == c.rcpt # NULL /\ c.rcpt.status = 1

\* the order of raw / 10^decimals and the decimal string e, exactly
RawCmp(raw, decimals, e) ==
    CmpDigits(raw \o Zeros(Len(e.frac)), e.int \o e.frac \o Zeros(decimals))

\* the decimal string s denotes raw / 10^decimals
Denotes(s, raw, decimals) ==
    /\ Len(s.frac) <= decimals
    /\ StripLeading(s.int \o s.frac \o Zeros(decimals - Len(s.frac))) = StripLeading(raw)

\* the call has returned, every RPC call answered, the receipt says success
\* and there is a transfer to the recipient: the amount has been derived
Derived(c) ==
    /\ c # NULL /\ c.result # NULL /\ c.fail = 0
    /\ StatusSuccess(c) /\ HasPayment(c)

\* C5: a chain-derived amount below the expected amount gives
\* InsufficientAmount carrying the expected and the actual amount, for the
\* native coin and for the fungible token.
C5_BelowIsInsufficient ==
    (Derived(vq) /\ RawCmp(PaidRaw(vq), PaidDecimals(vq), vq.expected) < 0)
        => /\ vq.result.kind = "InsufficientAmount"
           /\ vq.result.expected = vq.expected
           /\ Denotes(vq.result.actual, PaidRaw(vq), PaidDecimals(vq))

\* C6: with status success, a transfer to the recipient and every RPC call
\* answered, an amount equal to or above the expected amount is accepted,
\* and the result carries exactly that amount and the payer of the source
\* field.
C6_EqualOrExcessAccepted ==
    (Derived(vq) /\ RawCmp(PaidRaw(vq), PaidDecimals(vq), vq.expected) >= 0)
        => /\ vq.result.kind = "Success"
           /\ Denotes(vq.result.amount, PaidRaw(vq), PaidDecimals(vq))
           /\ vq.result.from = PaidFrom(vq)

C6_Overpaid ==
    /\ Derived(vq) /\ vq.result.kind = "Success" /\ vq.token = "USDC"
    /\ RawCmp(PaidRaw(vq), PaidDecimals(vq), vq.expected) > 0

\* C7: a successful result has status success, a destination equal to the
\* recipient without regard to case, and an actual amount not below the
\* expected amount.
C7_SuccessMeansPaid ==
    (vq # NULL /\ vq.result # NULL /\ vq.result.kind = "Success")
        => /\ StatusSuccess(vq)
           /\ HasPayment(vq)
           /\ RawCmp(PaidRaw(vq), PaidDecimals(vq), vq.expected) >= 0

(***************************************************************************)
(* Properties of the purchase endpoints.                                   *)
(***************************************************************************)
Finished(i) == req[i].pc = "done"

RecordsOf(transactionHash) == {a \in access : a.transactionHash = transactionHash}

\* request j had been answered when request i arrived
Earlier(j, i) == j \in req[i].after

Arrived(i) == req[i].pc # "idle"

\* requests i and j were in flight together
Overlap(i, j) ==
    i # j /\ Arrived(i) /\ Arrived(j) /\ ~Earlier(i, j) /\ ~Earlier(j, i)

\* the requests came one after the other
InSequence == \A i, j \in Slots : ~Overlap(i, j)

\* C1: after a sequence of video-purchase requests, each answered before
\* the next arrives, the store holds at most one access record per
\* transaction hash.
C1_OneRecordPerHash ==
    InSequence => \A h \in Hashes : Cardinality(RecordsOf(h)) <= 1

\* C2: of two video-purchase requests by one principal for one video that
\* carry the same transaction hash, are in flight together and both reach
\* the access check, one ends Granted and the other AlreadyGranted, and one
\* access record is persisted.
C2_RaceGrantsOnce ==
    \A i, j \in Slots :
        ( /\ Overlap(i, j) /\ Finished(i) /\ Finished(j)
          /\ req[i].hash = req[j].hash
          /\ req[i].item = req[j].item
          /\ req[i].principal.id = req[j].principal.id
          /\ {req[i].outcome, req[j].outcome} \subseteq {"Granted", "AlreadyGranted"} )
        => /\ {req[i].outcome, req[j].outcome} = {"Granted", "AlreadyGranted"}
           /\ Cardinality(RecordsOf(req[i].hash)) = 1

\* C3: when a video purchase has been Granted for a transaction hash, a
\* later call with that hash that gets as far as the grant decision ends
\* AlreadyGranted, and the hash keeps one access record.
C3_SecondCallAlreadyGranted ==
    \A i, j \in Slots :
        ( /\ Earlier(j, i) /\ Finished(i)
          /\ req[j].outcome = "Granted" /\ req[i].hash = req[j].hash
          /\ req[i].outcome \in {"Granted", "AlreadyGranted"} )
        => /\ req[i].outcome = "AlreadyGranted"
           /\ Cardinality(RecordsOf(req[i].hash)) = 1

C8_OnlyApprovedPurchase ==
    \A i \in Slots :
        (req[i].pc # "idle" /\ req[i].principal.whitelistStatus # "approved")
        => (Finished(i) /\ req[i].outcome = "Unauthorized")

\* an unapproved principal was turned away although the catalog holds an
\* active video and an active tier to buy
C8_Turned ==
    /\ Finished(1) /\ req[1].outcome = "Unauthorized"
    /\ req[1].principal.whitelistStatus \in {"pending", "rejected"}
    /\ \E v \in videos : v.isActive
    /\ \E t \in tiers : t.isActive

\* C9: a purchase is Granted only for an item whose most recent
\* create/update left it active when the request looked it up.
C9_InactiveNeverPurchased ==
    \A i \in Slots : req[i].outcome = "Granted" => req[i].live

\* C10: a request for a video its principal already owns (an earlier
\* request of that principal was Granted the video) makes no chain RPC call.
C10_CheckBeforeChain ==
    \A i, j \in Slots :
        ( /\ Earlier(j, i) /\ req[j].outcome = "Granted"
          /\ req[i].principal.id = req[j].principal.id
          /\ req[i].kind = "video" /\ req[i].item = req[j].item )
        => req[i].calls = 0

(***************************************************************************)
(* Properties of content serving (SpecContent).                            *)
(***************************************************************************)
\* the content request was decided by the access check
Decided(c) == c # NULL /\ c.outcome \in {"Served", "Forbidden"}

Approved(principal) == principal.whitelistStatus = "approved"

\* C11: the content of a video is served exactly when hasAccess holds for
\* the principal and the video.  Whatever the video's isFreeWithSubscription
\* flag, that means: an approved principal and a principal with an access
\* record for the video are served, and whoever is served is approved, has
\* an access record, or has an effective subscription.
C11_ContentIffHasAccess ==
    Decided(last.content) =>
        /\ (Approved(last.content.principal) \/ last.content.entitled)
              => last.content.outcome = "Served"
        /\ last.content.outcome = "Served"
              => \/ Approved(last.content.principal)
                 \/ last.content.entitled
                 \/ last.content.subscribed

\* C12: an approved principal is served the content of every video whose
\* most recent version is active, with or without a purchase or a
\* subscription.
C12_ApprovedAlwaysServed ==
    (last.content # NULL /\ Approved(last.content.principal) /\ last.content.live)
        => last.content.outcome = "Served"

(***************************************************************************)
(* Properties of the subscription endpoints.                               *)
(***************************************************************************)
\* the stored subscription state is the one a purchase computed
Stored(subscription, sub) ==
    /\ subscription # NULL
    /\ subscription.tierId = sub.tierId
    /\ subscription.isActive = sub.isActive
    /\ Day(subscription.startDate) = Day(sub.startDate)
    /\ Day(subscription.endDate) = Day(sub.endDate)

\* a subscription purchase was answered after its payment had verified
Verified(i) == Finished(i) /\ req[i].kind = "subscription" /\ req[i].paid

\* C13: a subscription purchase whose payment verified is Granted, and the
\* user's profile then holds the SubscriptionState of that purchase: the
\* tier's id, the start date, the end date computed from that start date and
\* the tier's duration alone, and isActive true.
C13_PurchaseWritesState ==
    \A i \in Slots :
        Verified(i)
        => /\ req[i].outcome = "Granted"
           /\ \E u \in users : /\ u.id = req[i].principal.id
                               /\ Stored(u.subscription, req[i].sub)

\* C14: the end date of a subscription purchase is the day durationDays
\* days after its start date, on every start day of every month.
C14_EndIsStartPlusDuration ==
    (vq # NULL /\ vq.op = "dates" /\ vq.result # NULL)
        => vq.result.endDate.date = vq.result.startDate.date + vq.durationDays

\* the stored subscription state is that of a purchase, deactivated
StoredCancelled(subscription, sub) ==
    /\ subscription # NULL
    /\ subscription.tierId = sub.tierId
    /\ ~subscription.isActive
    /\ Day(subscription.startDate) = Day(sub.startDate)
    /\ Day(subscription.endDate) = Day(sub.endDate)

\* C15: cancelSubscription by a principal whose subscription purchase had
\* verified succeeds, and the profile then holds that purchase's
\* SubscriptionState with isActive false and tierId, startDate and endDate
\* as the purchase computed them, in a user record whose other fields are
\* those of the record the cancellation found.
C15_CancelKeepsDates ==
    (last.cancel # NULL /\ last.cancel.purchased # {})
        => /\ last.cancel.outcome = "Cancelled"
           /\ \E u \in users, sub \in last.cancel.purchased :
                 /\ StoredCancelled(u.subscription, sub)
                 /\ u = [last.cancel.found EXCEPT !.subscription = u.subscription]

\* C16: cancelSubscription by a principal whose profile has no
\* SubscriptionState, or one whose isActive is false, is answered
\* NoActiveSubscription and writes nothing.
C16_NoActiveSubscription ==
    ( /\ last.cancel # NULL
      /\ last.cancel.found # NULL
      /\ IF last.cancel.found.subscription = NULL THEN TRUE
         ELSE ~last.cancel.found.subscription.isActive )
        => /\ last.cancel.outcome = "NoActiveSubscription"
           /\ ~last.cancel.wrote

\* a principal without SubscriptionState was refused the cancellation
C16_Refused ==
    /\ last.cancel # NULL
    /\ last.cancel.found # NULL
    /\ last.cancel.found.subscription = NULL
    /\ last.cancel.outcome = "NoActiveSubscription"

\* C17: getSubscriptionStatus, asked after the principal's verified
\* subscription purchase and the cancellation that followed it, reports a
\* subscription with isActive false, stored and effective, and with the
\* endDate of the purchase, whether that date has passed or not.
C17_StatusAfterCancel ==
    (last.status # NULL /\ last.status.cancelled # {})
        => /\ last.status.outcome = "Ok"
           /\ ~last.status.isActive
           /\ \E sub \in last.status.cancelled :
                 StoredCancelled(last.status.subscription, sub)

C19_AccessOnlyGrows ==
    [][\A a \in access : \E b \in access' : b = a]_vars

\* a second record has been written and the first one is still there, after
\* a request that found its video has been answered
C19_GrantKept ==
    /\ Cardinality(access) >= 2
    /\ \E a \in access : a.id = 1
    /\ \E i \in Slots : Finished(i) /\ req[i].kind = "video" /\ req[i].outcome = "Granted"

\* the failure kind of the specification that a verifier's throw site stands for
FailureKind(kind) ==
    IF kind = "ReceiptNotFound" THEN "TransactionNotFound"
    ELSE IF kind = "NoTransferFound" THEN "RecipientMismatch"
    ELSE kind

\* the failure kind a caller reads from an answer, "Failure" when the answer
\* names none
KindReported(response) ==
    IF response.status # 500 \/ Len(response.error) < 3 THEN "Failure"
    ELSE IF response.error[1] \notin {"Purchase verification failed: ",
                                      "Subscription purchase failed: "} THEN "Failure"
    ELSE IF response.error[2] # "Payment verification failed: " THEN "Failure"
    ELSE LET message == response.error[3]
         IN  IF message \in {"Transaction not found", "Transaction receipt not found"}
             THEN "TransactionNotFound"
             ELSE IF message = "Transaction failed" THEN "TransactionReverted"
             ELSE IF message \in {"No USDC transfer found in transaction",
                                  "USDC transfer not directed to store wallet",
                                  "Transaction not directed to store wallet"}
             THEN "RecipientMismatch"
             ELSE IF message = "Insufficient payment: expected " THEN "InsufficientAmount"
             ELSE IF message \in ProviderMessages THEN "ChainUnavailable"
             ELSE "Failure"

C21_StorageFailureSurfaces ==
    \A i \in Slots :
        req[i].fault # "" => (Finished(i) /\ req[i].outcome = "StorageFailure")

\* C22: every purchase request that has arrived eventually reaches a
\* terminal outcome, also when the chain RPC does not answer (it then ends
\* with ChainUnavailable instead of waiting without end).
C22_RequestTerminates ==
    \A i \in Slots : (req[i].pc # "idle") ~> Finished(i)

\* the ways of writing one address
Spellings(a) == {[a EXCEPT !.cs = cs] : cs \in {"lower", "mixed"}}

\* C23: every address comparison is case-insensitive: the recipient match of
\* both verifiers, the token-contract filter on logs and the lookup of a
\* user by wallet address give the same result for two addresses that
\* differ only in letter case.
C23_AddressCaseIgnored ==
    /\ \A recipient \in Spellings(StoreWallet), h \in Hashes :
          /\ VerifyUsdcPayment(Chain[h].rcpt, P500, recipient, 0)
                = VerifyUsdcPayment(Chain[h].rcpt, P500, StoreWallet, 0)
          /\ VerifyEthPayment(Chain[h].tx, Chain[h].rcpt, P500, recipient, 0)
                = VerifyEthPayment(Chain[h].tx, Chain[h].rcpt, P500, StoreWallet, 0)
    /\ \A address \in Spellings(UsdcAddress) :
          IsUsdcLog([address |-> address, ev |-> NULL])
    /\ \A u \in users : \A walletAddress \in Spellings(u.walletAddress) :
          FindUserByWallet(walletAddress) = FindUserByWallet(u.walletAddress)

\* C24: last write wins on a stored profile: once updateUser(id, updates)
\* has been carried out for a stored user, every read of that user returns
\* the record with those updates.  Here the update is the whitelistStatus
\* 'rejected' of removeUserFromWhitelist, the read is findUserByWallet.
C24_LastWriteWins ==
    [][\A w \in Wallets :
          (RemoveUserFromWhitelist(w) /\ FindUserByWallet(w) # {NULL})
          => \A u \in FindUserByWallet(w)' : u.whitelistStatus = "rejected"]_vars

\* the price the catalog holds for the resolved item
CatalogPrice(found) == IF "price" \in DOMAIN found THEN found.price ELSE found.priceUsd

\* the amount the chain holds for a transaction, in the token's decimals
ChainAmount(transactionHash, paymentToken) ==
    IF paymentToken = "USDC"
    THEN FormatUnits(Chain[transactionHash].rcpt.logs[1].ev.value, UsdcDecimals)
    ELSE FormatEther(Chain[transactionHash].tx.value)

\* C25: verification never trusts a client-supplied amount: the payment is
\* checked against the catalog price of the resolved item, the amount
\* recorded and returned with a grant is the amount read from the chain,
\* and the outcome is the same whatever else the request carries.
C25_AmountsNotFromClient ==
    (vq.op = "purchase" /\ vq.result # NULL) =>
        /\ vq.result = VerifyPayment(vq.body.transactionHash, vq.body.paymentToken,
                                     CatalogPrice(vq.found), vq.fail)
        /\ vq.result.kind = "Success" =>
              vq.amountPaid = ChainAmount(vq.body.transactionHash, vq.body.paymentToken)
        /\ vq.result.kind = "InsufficientAmount" =>
              vq.result.expected = CatalogPrice(vq.found)

\* a payment of 5 for an item priced 5.00 was accepted although the request
\* named an amount of 9
C25_ClaimIgnored ==
    /\ vq.op = "purchase" /\ vq.result # NULL
    /\ vq.body.amount = P9 /\ CatalogPrice(vq.found) = P500
    /\ vq.result.kind = "Success"

\* the provider answered every call the verifier made
Answered(c) == c # NULL /\ c.result # NULL /\ c.result.kind # "ChainUnavailable"

\* C26: verify reports failures in a fixed precedence, for both token kinds:
\* no receipt gives TransactionNotFound; a receipt whose status is not
\* success gives TransactionReverted whatever its recipient and amount;
\* recipient and amount are examined only after both checks have passed.
\* A receipt comes with its transaction.
C26_FailurePrecedence ==
    (Answered(vq) /\ (vq.rcpt # NULL => vq.token = "USDC" \/ vq.tx # NULL))
    => /\ vq.rcpt = NULL => FailureKind(vq.result.kind) = "TransactionNotFound"
       /\ (vq.rcpt # NULL /\ vq.rcpt.status # 1) => vq.result.kind = "TransactionReverted"
       /\ vq.result.kind \in {"RecipientMismatch", "NoTransferFound",
                              "InsufficientAmount", "Success"} => StatusSuccess(vq)

\* a reverted transfer of the native coin that did not go to the store
\* wallet either is reported as reverted
C26_RevertedToStore ==
    /\ Answered(vq) /\ vq.token = "ETH" /\ vq.tx # NULL /\ vq.rcpt # NULL
    /\ vq.rcpt.status # 1
    /\ vq.tx.to # NULL /\ ToLowerCase(vq.tx.to) # ToLowerCase(vq.recipient)
    /\ vq.result.kind = "TransactionReverted"

\* the positions, in the receipt's logs, of the decoded transfers of the
\* token contract to the recipient of the call
Matching(c) ==
    {i \in 1..Len(c.rcpt.logs) :
        /\ c.rcpt.logs[i].address.who = UsdcAddress.who
        /\ c.rcpt.logs[i].ev # NULL
        /\ c.rcpt.logs[i].ev.to.who = c.recipient.who}

\* C27: for the fungible token, verify judges the payment by the first
\* decoded Transfer of the token contract whose to is the recipient, in any
\* letter case, and takes amount and payer from that transfer alone; with no
\* such transfer, also when no transfer decodes at all, the result is
\* RecipientMismatch.
C27_FirstMatchingTransfer ==
    (Answered(vq) /\ vq.token = "USDC" /\ StatusSuccess(vq)) =>
        IF Matching(vq) = {}
        THEN FailureKind(vq.result.kind) = "RecipientMismatch"
        ELSE LET ev == vq.rcpt.logs[Least(Matching(vq))].ev
             IN  /\ vq.result.kind \in {"Success", "InsufficientAmount"}
                 /\ vq.result.kind = "Success" =>
                       /\ vq.result.from = ev.from
                       /\ Denotes(vq.result.amount, ev.value, UsdcDecimals)
                 /\ vq.result.kind = "InsufficientAmount" =>
                       Denotes(vq.result.actual, ev.value, UsdcDecimals)

\* two transfers to the recipient with different amounts, the first one
\* counted
C27_TwoTransfers ==
    /\ Answered(vq) /\ vq.token = "USDC" /\ StatusSuccess(vq)
    /\ Cardinality(Matching(vq)) = 2
    /\ vq.rcpt.logs[1].ev.value # vq.rcpt.logs[2].ev.value
    /\ vq.result.kind \in {"Success", "InsufficientAmount"}

\* a log of the token contract that does not parse as a Transfer
Malformed(log) == log.address.who = UsdcAddress.who /\ log.ev = NULL

WellFormed(log) == ~Malformed(log)

\* C28: log entries of the token contract that fail to parse are dropped
\* without an error: the result of verify is the result for the receipt
\* without its malformed entries, and a receipt whose token-contract logs
\* are all malformed gets the failure of a receipt with no transfer.
C28_MalformedLogsDropped ==
    (vq # NULL /\ vq.result # NULL /\ vq.token = "USDC" /\ vq.rcpt # NULL) =>
        /\ vq.result = VerifyUsdcPayment([vq.rcpt EXCEPT !.logs = SelectSeq(@, WellFormed)],
                                         vq.expected, vq.recipient, vq.fail)
        /\ ( /\ Answered(vq) /\ StatusSuccess(vq)
             /\ \A i \in 1..Len(vq.rcpt.logs) :
                   vq.rcpt.logs[i].address.who = UsdcAddress.who => Malformed(vq.rcpt.logs[i]) )
           => vq.result = VerifyUsdcPayment([vq.rcpt EXCEPT !.logs = <<>>],
                                            vq.expected, vq.recipient, vq.fail)

\* a receipt with a malformed entry before the transfer that pays
C28_MalformedThenPaid ==
    /\ Answered(vq) /\ vq.token = "USDC" /\ StatusSuccess(vq)
    /\ Len(vq.rcpt.logs) = 2
    /\ Malformed(vq.rcpt.logs[1])
    /\ vq.result.kind = "Success"

\* C29: concurrent updateUser calls on one user that change different
\* fields lose neither change.  While the updateUser of a subscription
\* purchase is between its read and its write, a whitelist change of the
\* same user is stored; and the write of the purchase stores its
\* subscription in a record that carries the whitelist change as well.
C29_ConcurrentUpdatesKept ==
    [][\A i \in Slots :
          /\ \A w \in Wallets :
                ( /\ RemoveUserFromWhitelist(w)
                  /\ req[i].pc = "write" /\ req[i].existing.walletAddress = w )
                => \E u \in users' : u.walletAddress = w /\ u.whitelistStatus = "rejected"
          /\ ( /\ WriteUser(i)
               /\ \E u \in users : /\ u.id = req[i].existing.id
                                   /\ u.whitelistStatus # req[i].existing.whitelistStatus )
             => \E u \in users' :
                   /\ u.id = req[i].existing.id
                   /\ Stored(u.subscription, req[i].sub)
                   /\ u.whitelistStatus # req[i].existing.whitelistStatus]_vars

\* C30: a purchase request that ends in a failure exit leaves the stored
\* access records and the users' subscription state as they were: the only
\* step of a request that changes the store is the one that ends it Granted.
C30_FailureLeavesStore ==
    [][\A i \in Slots :
          (req[i]' # req[i] /\ ~(req[i].pc' = "done" /\ req[i].outcome' = "Granted"))
          => (access' = access /\ users' = users)]_vars

\* with an access record in the store, a second request of its owner was
\* answered that the user already has access
C30_Refused ==
    /\ Cardinality(access) = 1
    /\ \E i, j \in Slots :
          /\ Finished(j) /\ req[j].outcome = "Granted"
          /\ Finished(i) /\ req[i].outcome = "AlreadyGranted"

====
